---- MODULE Spec2Model ----
(***************************************************************************)
(* A model of the helper package: the DefiLlama client (helper/defillama.py) *)
(* and the Dune result extraction (helper/access_dune.py).                 *)
(*                                                                         *)
(* One behaviour is one call of a public function: the caller invokes it,  *)
(* the client issues its HTTP GET, the service answers (or the request     *)
(* fails), and the function reshapes the parsed JSON and returns or raises.*)
(*                                                                         *)
(* Python values are modelled as follows.                                  *)
(*   list            sequence                                              *)
(*   dict            sequence of <<key, value>> pairs with distinct keys   *)
(*                   (a dict keeps insertion order), or, for the flat JSON *)
(*                   objects that become table rows, a function from field *)
(*                   name to value                                         *)
(*   str (a key)     sequence of one-character strings                     *)
(*   datetime        [days, secs] since 1970-01-01 00:00:00 UTC            *)
(*   DataFrame       [columns, index, rows, dtypes]: the column labels in  *)
(*                   order, the row labels in order, one function from     *)
(*                   column label to cell per row, and the kind of value   *)
(*                   each column holds                                     *)
(*   exception       [exc |-> name of the exception class]                 *)
(***************************************************************************)
EXTENDS Integers, Sequences, FiniteSets, TLC

(***************************************************************************)
(* Bounds of the model.                                                    *)
(***************************************************************************)
\* longest TVL series / Dune result the service answers with
MaxSeries == 3
\* most entries of a currentChainTvls mapping
MaxChains == 2
\* most entries of token_addrs_n_chains
MaxTokens == 2
\* most records of a /chains/ or /protocols answer
MaxRecords == 2

\* seconds in a day, as datetime.utcfromtimestamp counts them
SecondsPerDay == 86400

(***************************************************************************)
(* Generic helpers on sequences.                                           *)
(***************************************************************************)
Range(s) == {s[i] : i \in 1..Len(s)}

\* the sequences over S of length at most n
SeqsUpTo(S, n) == UNION {[1..k -> S] : k \in 0..n}

\* the sequences over S of length at most n without a repeated element
DistinctSeqsUpTo(S, n) ==
    {s \in SeqsUpTo(S, n) : \A i, j \in 1..Len(s) : i # j => s[i] # s[j]}

Keys(dd) == [i \in 1..Len(dd) |-> dd[i][1]]
Values(dd) == [i \in 1..Len(dd) |-> dd[i][2]]

\* the dicts (ordered, distinct keys) with keys in K, values in V, at most n entries
Dicts(K, V, n) ==
    {dd \in SeqsUpTo(K \X V, n) : \A i, j \in 1..Len(dd) : i # j => dd[i][1] # dd[j][1]}

(***************************************************************************)
(* Exceptions and the None result.                                         *)
(***************************************************************************)
Raise(e) == [exc |-> e]
IsRaise(r) == "exc" \in DOMAIN r
None == [none |-> TRUE]

(***************************************************************************)
(* datetime.utcfromtimestamp(int(x)) and the order of datetimes.           *)
(***************************************************************************)
\* a variant that keeps the day and loses the time of day
utcfromtimestampDayOnly(x) == [days |-> x \div SecondsPerDay, secs |-> 0]

utcfromtimestamp(x) == [days |-> x \div SecondsPerDay, secs |-> x % SecondsPerDay]

DatetimeLess(a, b) == a.days < b.days \/ (a.days = b.days /\ a.secs < b.secs)

(***************************************************************************)
(* pandas.DataFrame.                                                       *)
(***************************************************************************)
\* the order in which the fields of the JSON objects appear
FieldOrder ==
    <<"date", "totalLiquidityUSD",
      "decimals", "symbol", "price", "timestamp", "confidence",
      "name", "tokenSymbol", "tvl", "chain", "category", "chains",
      "change_1d", "change_7d", "fdv", "mcap", "forkedFrom",
      "chainId", "height", "day", "v">>

\* the filler pandas puts where a row has no value for a column
NaN == [nan |-> TRUE]

\* pd.DataFrame(list of dicts): the union of the keys as columns, one row per
\* dict, a missing key filled with NaN, the positions as row labels
DataFrame(recs) ==
    LET fields == UNION {DOMAIN recs[i] : i \in 1..Len(recs)}
        cols == SelectSeq(FieldOrder, LAMBDA c : c \in fields)
    IN  [columns |-> cols,
         index   |-> [i \in 1..Len(recs) |-> i - 1],
         rows    |-> [i \in 1..Len(recs) |->
                        [c \in fields |-> IF c \in DOMAIN recs[i] THEN recs[i][c] ELSE NaN]],
         dtypes  |-> [c \in fields |-> "json"]]

HasColumn(d, c) == c \in Range(d.columns)

\* df[c] = df[c].apply(lambda x: dt.datetime.utcfromtimestamp(int(x)))
\* (in place: the DataFrame object itself changes)
ConvertColumn(d, c) ==
    [d EXCEPT !.rows   = [i \in 1..Len(d.rows) |->
                            [d.rows[i] EXCEPT ![c] = utcfromtimestamp(@)]],
              !.dtypes = [@ EXCEPT ![c] = "datetime"]]

\* df.set_index(c): a new frame whose row labels are column c, without column c
set_index(d, c) ==
    LET rest == DOMAIN d.dtypes \ {c}
    IN  [columns |-> SelectSeq(d.columns, LAMBDA x : x # c),
         index   |-> [i \in 1..Len(d.rows) |-> d.rows[i][c]],
         rows    |-> [i \in 1..Len(d.rows) |-> [x \in rest |-> d.rows[i][x]]],
         dtypes  |-> [x \in rest |-> d.dtypes[x]]]

\* df.rename(columns={old: new}): a new frame; a missing old label is ignored
rename(d, old, new) ==
    LET to(x) == IF x = old THEN new ELSE x
        from(x) == IF x = new THEN old ELSE x
        labels == {to(x) : x \in DOMAIN d.dtypes}
    IN  [columns |-> [i \in 1..Len(d.columns) |-> to(d.columns[i])],
         index   |-> d.index,
         rows    |-> [i \in 1..Len(d.rows) |-> [x \in labels |-> d.rows[i][from(x)]]],
         dtypes  |-> [x \in labels |-> d.dtypes[from(x)]]]

\* df.loc[:, cols]: the listed columns in the listed order; KeyError when one is missing
loc_columns(d, cols) ==
    IF \E i \in 1..Len(cols) : ~HasColumn(d, cols[i])
    THEN Raise("KeyError")
    ELSE [columns |-> cols,
          index   |-> d.index,
          rows    |-> [i \in 1..Len(d.rows) |-> [x \in Range(cols) |-> d.rows[i][x]]],
          dtypes  |-> [x \in Range(cols) |-> d.dtypes[x]]]

(***************************************************************************)
(* DefiLlama._tidy_frame_tvl.  The call changes the frame passed in (its   *)
(* date column is overwritten) and returns a new frame: `input` is the     *)
(* passed frame after the call, `output` what the call returns.            *)
(***************************************************************************)
\* a variant that drops the last row of the series
TidyFrameTvlDropsLast(d) ==
    IF ~HasColumn(d, "date")
    THEN [input |-> d, output |-> Raise("AttributeError")]
    ELSE LET conv == ConvertColumn(d, "date")
             out  == rename(set_index(conv, "date"), "totalLiquidityUSD", "tvl")
             n    == Len(out.rows)
         IN  [input  |-> conv,
              output |-> [out EXCEPT !.index = SubSeq(@, 1, n - 1),
                                     !.rows  = SubSeq(@, 1, n - 1)]]

_tidy_frame_tvl(d) ==
    IF ~HasColumn(d, "date")
    THEN [input |-> d, output |-> Raise("AttributeError")]
    ELSE LET conv == ConvertColumn(d, "date")
         IN  [input  |-> conv,
              output |-> rename(set_index(conv, "date"), "totalLiquidityUSD", "tvl")]

(***************************************************************************)
(* str.split(':') and DefiLlama._tidy_frame_price.                         *)
(***************************************************************************)
Colon == ":"

\* the position of the first colon of s, 0 when there is none
FirstColon(s) ==
    IF \E i \in 1..Len(s) : s[i] = Colon
    THEN CHOOSE i \in 1..Len(s) : s[i] = Colon /\ \A j \in 1..(i - 1) : s[j] # Colon
    ELSE 0

RECURSIVE split(_)
\* s.split(':'): cut at every colon
split(s) ==
    IF FirstColon(s) = 0 THEN <<s>>
    ELSE <<SubSeq(s, 1, FirstColon(s) - 1)>> \o split(SubSeq(s, FirstColon(s) + 1, Len(s)))

\* pd.DataFrame(list of lists): as many columns as the longest list, labelled by
\* position, a shorter list padded with None
ListFrameWidth(lists) ==
    IF lists = <<>> THEN 0
    ELSE CHOOSE w \in {Len(lists[i]) : i \in 1..Len(lists)} :
            \A i \in 1..Len(lists) : Len(lists[i]) <= w

\* the value objects never carry these two labels, so the join finds no overlap
KeyColumns == <<"chain", "token_address">>

_tidy_frame_price(r) ==
    LET keys   == Keys(r.coins)
        parts  == [i \in 1..Len(keys) |-> split(keys[i])]
        vals   == DataFrame(Values(r.coins))
        cell(i, k) == IF k <= Len(parts[i]) THEN parts[i][k] ELSE None
        joined == [columns |-> KeyColumns \o vals.columns,
                   index   |-> vals.index,
                   rows    |-> [i \in 1..Len(keys) |->
                                  [c \in Range(KeyColumns) \cup DOMAIN vals.dtypes |->
                                     IF c = "chain" THEN cell(i, 1)
                                     ELSE IF c = "token_address" THEN cell(i, 2)
                                     ELSE vals.rows[i][c]]],
                   dtypes  |-> [c \in Range(KeyColumns) \cup DOMAIN vals.dtypes |-> "json"]]
    IN  IF ListFrameWidth(parts) # Len(KeyColumns) THEN Raise("ValueError")
        ELSE IF Range(KeyColumns) \cap Range(vals.columns) # {} THEN Raise("ValueError")
        ELSE IF ~HasColumn(joined, "timestamp") THEN Raise("AttributeError")
        ELSE ConvertColumn(joined, "timestamp")

CurrPriceColumns ==
    <<"timestamp", "symbol", "price", "confidence", "chain", "token_address", "decimals">>

HistPriceColumns ==
    <<"timestamp", "symbol", "price", "chain", "token_address", "decimals">>

(***************************************************************************)
(* dict.pop and pd.Series(dd).to_frame() of get_protocol_curr_tvl_by_chain.*)
(***************************************************************************)
HasKey(dd, k) == \E i \in 1..Len(dd) : dd[i][1] = k

\* a variant that removes the last entry, as dict.popitem does
popitem(dd, k) == SubSeq(dd, 1, Len(dd) - 1)

pop(dd, k) == SelectSeq(dd, LAMBDA e : e[1] # k)

\* ss = pd.Series(dd); ss.name = name; ss.to_frame()
SeriesToFrame(dd, name) ==
    [columns |-> <<name>>,
     index   |-> Keys(dd),
     rows    |-> [i \in 1..Len(dd) |-> [c \in {name} |-> dd[i][2]]],
     dtypes  |-> [c \in {name} |-> "json"]]

Lookup(dd, k) == (CHOOSE e \in Range(dd) : e[1] = k)[2]

(***************************************************************************)
(* extract_frame_from_dune_data.  A day string "2022-05-01T00:00:00+00:00" *)
(* is [date, time]: the text before the first T (as a day number) and the  *)
(* text after it.                                                          *)
(***************************************************************************)
\* pd.to_datetime(s.replace('T.*', '', regex=True)): the time of day is cut off
to_datetime_day(s) == [days |-> s.date, secs |-> 0]

\* json_normalize, the columns that start with 'data', and the 'data.' prefix
\* removed: one row per result record, holding the fields of its data object
DataColumns(dune_data) ==
    LET dd == dune_data.data.get_result_by_result_id
    IN  DataFrame([i \in 1..Len(dd) |-> dd[i].data])

RowOrders(n) == {p \in [1..n -> 1..n] : \A i, j \in 1..n : i # j => p[i] # p[j]}

\* the row orders sort_index may produce: rows of equal label in any order
SortOrders(d) ==
    {p \in RowOrders(Len(d.index)) :
        \A i \in 1..(Len(d.index) - 1) : ~DatetimeLess(d.index[p[i + 1]], d.index[p[i]])}

\* the rows of d in the order p
Reorder(d, p) ==
    [d EXCEPT !.index = [i \in 1..Len(d.index) |-> d.index[p[i]]],
              !.rows  = [i \in 1..Len(d.rows) |-> d.rows[p[i]]]]

\* df.iloc[:-1, :]
DropLastRow(d) ==
    [d EXCEPT !.index = SubSeq(@, 1, Len(d.index) - 1),
              !.rows  = SubSeq(@, 1, Len(d.rows) - 1)]

\* df.iloc[1:, :]
DropFirstRow(d) ==
    [d EXCEPT !.index = SubSeq(@, 2, Len(d.index)),
              !.rows  = SubSeq(@, 2, Len(d.rows))]

\* the frame with its date column set as index, before sorting
DatedFrame(dd, date_col) ==
    LET raw    == DataColumns(dd)
        fields == DOMAIN raw.dtypes \cup {"date"}
        dated  == [columns |-> IF HasColumn(raw, "date") THEN raw.columns
                               ELSE raw.columns \o <<"date">>,
                   index   |-> raw.index,
                   rows    |-> [i \in 1..Len(raw.rows) |->
                                  [c \in fields |->
                                     IF c = "date" THEN to_datetime_day(raw.rows[i][date_col])
                                     ELSE raw.rows[i][c]]],
                   dtypes  |-> [c \in fields |->
                                  IF c = "date" THEN "datetime" ELSE raw.dtypes[c]]]
        kept   == IF date_col # "date"
                  THEN loc_columns(dated, SelectSeq(dated.columns, LAMBDA c : c # date_col))
                  ELSE dated
    IN  set_index(kept, "date")

\* a variant that drops the first row of the sorted frame
ExtractDropsFirstRow(dd, date_col, p) ==
    DropFirstRow(Reorder(DatedFrame(dd, date_col), p))

\* the returned frame when sort_index orders the rows as p
extract_frame_from_dune_data(dd, date_col, p) ==
    DropLastRow(Reorder(DatedFrame(dd, date_col), p))

(***************************************************************************)
(* The class DefiLlama: its attributes, its public methods, its base URLs. *)
(***************************************************************************)
DefiLlamaAttributes ==
    {"session", "_tidy_frame_tvl", "_get", "get_protocol_curr_tvl", "get_chains_curr_tvl",
     "get_defi_hist_tvl", "get_chain_hist_tvl", "get_protocols",
     "get_protocols_fundamentals", "get_protocol", "get_protocol_curr_tvl_by_chain",
     "get_protocol_hist_tvl_by_chain", "_tidy_frame_price", "get_tokens_curr_prices",
     "get_tokens_hist_snapshot_prices", "get_closest_block"}

TvlMethods == {"get_defi_hist_tvl", "get_chain_hist_tvl"}
ProtocolMethods ==
    {"get_protocol", "get_protocol_curr_tvl_by_chain", "get_protocol_hist_tvl_by_chain"}
ProtocolsMethods == {"get_protocols", "get_protocols_fundamentals"}
PriceMethods == {"get_tokens_curr_prices", "get_tokens_hist_snapshot_prices"}

PublicMethods ==
    {"get_protocol_curr_tvl", "get_chains_curr_tvl", "get_closest_block"}
        \cup TvlMethods \cup ProtocolMethods \cup ProtocolsMethods \cup PriceMethods

\* the api_name each public method passes to _get
ApiName(m) == IF m \in PriceMethods \cup {"get_closest_block"} THEN "COINS" ELSE "TVL"

\* the base URL _get selects for an api_name
BaseUrl(api_name) ==
    IF api_name = "TVL" THEN "https://api.llama.fi"
    ELSE IF api_name = "COINS" THEN "https://coins.llama.fi"
    ELSE IF api_name = "STABLECOINS" THEN "https://stablecoins.llama.fi"
    ELSE IF api_name = "YIELDS" THEN "https://yields.llama.fi"
    ELSE "https://abi-decoder.llama.fi"

(***************************************************************************)
(* The inputs of the calls and the bodies the services answer with.        *)
(***************************************************************************)
DateVals == {0, 86399, 86400}
TvlVals == {10, 20}

TvlRecords == [date : DateVals, totalLiquidityUSD : TvlVals]
TvlSeries == SeqsUpTo(TvlRecords, MaxSeries)

ChainKeys == {"Ethereum", "Arbitrum", "staking", "Ethereum-staking"}

\* the two histories a chain of a protocol answer may have
ChainSeries ==
    {<<[date |-> 0, totalLiquidityUSD |-> 10]>>,
     <<[date |-> 0, totalLiquidityUSD |-> 10], [date |-> 86400, totalLiquidityUSD |-> 20]>>}

\* a /protocol/{protocol} answer: the current TVL of every chain, and under
\* chainTvls the history of every one of these chains
ProtocolBodies ==
    UNION {{[currentChainTvls |-> c,
             chainTvls |-> [i \in 1..Len(c) |-> <<c[i][1], [tvl |-> h[i]]>>]] :
                h \in [1..Len(c) -> ChainSeries]} :
           c \in Dicts(ChainKeys, TvlVals, MaxChains)}

ChainRecords ==
    {[name |-> "Ethereum", tokenSymbol |-> "ETH", tvl |-> 20, chainId |-> 1],
     [name |-> "Arbitrum", tokenSymbol |-> "ARB", tvl |-> 10, chainId |-> 42161]}

ProtocolRecords ==
    {[name |-> "Lido", symbol |-> "LDO", chain |-> "Ethereum", category |-> "Liquid Staking",
      chains |-> <<"Ethereum">>, tvl |-> 20, change_1d |-> 1, change_7d |-> 2,
      fdv |-> 10, mcap |-> 10, forkedFrom |-> <<>>],
     [name |-> "Sushi", symbol |-> "SUSHI", chain |-> "Multi-Chain", category |-> "Dexes",
      chains |-> <<"Ethereum", "Arbitrum">>, tvl |-> 10, change_1d |-> 2, change_7d |-> 1,
      fdv |-> 20, mcap |-> 10, forkedFrom |-> <<"Uniswap">>]}

BlockBodies == [height : {100}, timestamp : DateVals]

\* token addresses (one with colons inside, as on Move chains) and chain names
TokenAddrs == {<<"0", "x", "A">>, <<"0", "x", "B">>, <<"0", "x", "2", ":", ":", "S">>}
ChainNames == {<<"e", "t", "h">>, <<"s", "u", "i">>}

TokenAddrsNChains == Dicts(TokenAddrs, ChainNames, MaxTokens)

\* [v + ':' + k for k, v in token_addrs_n_chains.items()]
RequestKeys(t) == [i \in 1..Len(t) |-> t[i][2] \o <<Colon>> \o t[i][1]]

\* the value object of one coin; confidence may be missing
PriceObjects ==
    [decimals : {18}, symbol : {"TKN"}, price : {1, 2}, timestamp : {86461}, confidence : {99}]
        \cup [decimals : {18}, symbol : {"TKN"}, price : {1, 2}, timestamp : {86461}]

RECURSIVE CoinsFor(_)
\* the coins mappings the price service may answer a list of requested keys with:
\* a value object for each key it knows, in the order requested
CoinsFor(keys) ==
    IF keys = <<>> THEN {<<>>}
    ELSE LET rest == CoinsFor(Tail(keys))
         IN  rest \cup {<<<<Head(keys), o>>>> \o r : o \in PriceObjects, r \in rest}

\* the JSON bodies the service may answer method m called with argument a
Bodies(m, a) ==
    IF m \in TvlMethods THEN TvlSeries
    ELSE IF m \in ProtocolMethods THEN ProtocolBodies
    ELSE IF m \in PriceMethods THEN {[coins |-> c] : c \in CoinsFor(RequestKeys(a))}
    ELSE IF m = "get_protocol_curr_tvl" THEN TvlVals
    ELSE IF m = "get_chains_curr_tvl" THEN DistinctSeqsUpTo(ChainRecords, MaxRecords)
    ELSE IF m \in ProtocolsMethods THEN DistinctSeqsUpTo(ProtocolRecords, MaxRecords)
    ELSE BlockBodies

\* the arguments method m may be called with (None where they do not matter)
Arguments(m) == IF m \in PriceMethods THEN TokenAddrsNChains ELSE {None}

\* the ways session.request(...).json() fails
RequestErrors == {"ConnectionError", "Timeout", "JSONDecodeError"}

DuneDays == [date : {1, 2}, time : {0, 5}]
DuneRecords == [data : [day : DuneDays, v : {1, 2}]]
\* a query result holds at least one record
DuneData ==
    {[data |-> [get_result_by_result_id |-> l]] : l \in SeqsUpTo(DuneRecords, MaxSeries) \ {<<>>}}

(***************************************************************************)
(* The state of one call.                                                  *)
(*   pc       where the call stands: "idle", "get" (in the method, before  *)
(*            self._get), "sent" (request on the wire), "got" (JSON parsed),*)
(*            "extract" (in extract_frame_from_dune_data), "returned",     *)
(*            "raised"                                                     *)
(*   call     the function called                                          *)
(*   arg      its argument                                                 *)
(*   request  the last request handed to session.request                   *)
(*   nreq     the number of requests handed to session.request             *)
(*   wire     the JSON body as the service sent it                         *)
(*   resp     the object .json() built from it, as it is now               *)
(*   df       the method's local data frame, as it is now                  *)
(*   result   the value returned                                           *)
(*   err      the exception raised                                         *)
(***************************************************************************)
VARIABLES pc, call, arg, request, nreq, wire, resp, df, result, err

vars == <<pc, call, arg, request, nreq, wire, resp, df, result, err>>

Init ==
    /\ pc = "idle"
    /\ call = "none"
    /\ arg = None
    /\ request = None
    /\ nreq = 0
    /\ wire = None
    /\ resp = None
    /\ df = None
    /\ result = None
    /\ err = "none"

\* the method ends with value r: a raised exception or a returned value
Finish(r) ==
    IF IsRaise(r)
    THEN pc' = "raised" /\ err' = r.exc /\ result' = result
    ELSE pc' = "returned" /\ err' = err /\ result' = r

\* the caller calls public method m of a DefiLlama object
Invoke ==
    /\ pc = "idle"
    /\ \E m \in PublicMethods : \E a \in Arguments(m) : call' = m /\ arg' = a
    /\ pc' = "get"
    /\ UNCHANGED <<request, nreq, wire, resp, df, result, err>>

\* the caller calls extract_frame_from_dune_data on a query result
InvokeExtract ==
    /\ pc = "idle"
    /\ \E a \in DuneData : arg' = a
    /\ call' = "extract_frame_from_dune_data"
    /\ pc' = "extract"
    /\ UNCHANGED <<request, nreq, wire, resp, df, result, err>>

\* _get: self.session.request('GET', url, params=params, timeout=30)
Get ==
    /\ pc = "get"
    /\ request' = [method |-> "GET", base |-> BaseUrl(ApiName(call)), timeout |-> 30]
    /\ nreq' = nreq + 1
    /\ pc' = "sent"
    /\ UNCHANGED <<call, arg, wire, resp, df, result, err>>

\* _get: the service answers and .json() parses the body
Respond ==
    /\ pc = "sent"
    /\ \E b \in Bodies(call, arg) : wire' = b /\ resp' = b
    /\ pc' = "got"
    /\ UNCHANGED <<call, arg, request, nreq, df, result, err>>

\* a variant of RequestFails that sends the request again
RequestFailsAndRetries ==
    /\ pc = "sent"
    /\ pc' = "get"
    /\ UNCHANGED <<call, arg, request, nreq, wire, resp, df, result, err>>

\* _get: the request fails or the body is not JSON; nothing catches the exception
RequestFails ==
    /\ pc = "sent"
    /\ \E e \in RequestErrors : err' = e
    /\ pc' = "raised"
    /\ UNCHANGED <<call, arg, request, nreq, wire, resp, df, result>>

(***************************************************************************)
(* The public methods, each from the return of self._get to its own return.*)
(***************************************************************************)
\* get_protocol_curr_tvl: the parsed body is returned as it is
GetProtocolCurrTvl ==
    /\ pc = "got" /\ call = "get_protocol_curr_tvl"
    /\ Finish([json |-> resp])
    /\ UNCHANGED <<call, arg, request, nreq, wire, resp, df>>

ChainsColumns == <<"name", "tokenSymbol", "tvl">>

get_chains_curr_tvl(r) ==
    LET sel == loc_columns(DataFrame(r), ChainsColumns)
    IN  IF IsRaise(sel) THEN sel
        ELSE rename(rename(sel, "name", "chain"), "tokenSymbol", "token")

GetChainsCurrTvl ==
    /\ pc = "got" /\ call = "get_chains_curr_tvl"
    /\ LET out == get_chains_curr_tvl(resp)
       IN  /\ df' = IF IsRaise(out) THEN DataFrame(resp) ELSE out
           /\ Finish(out)
    /\ UNCHANGED <<call, arg, request, nreq, wire, resp>>

\* get_defi_hist_tvl: df = pd.DataFrame(resp); return self._tidy_frame_tvl(df)
GetDefiHistTvl ==
    /\ pc = "got" /\ call = "get_defi_hist_tvl"
    /\ LET t == _tidy_frame_tvl(DataFrame(resp))
       IN  df' = t.input /\ Finish(t.output)
    /\ UNCHANGED <<call, arg, request, nreq, wire, resp>>

\* get_chain_hist_tvl: df = pd.DataFrame(resp); return self._tidy_frame_tvl(df)
GetChainHistTvl ==
    /\ pc = "got" /\ call = "get_chain_hist_tvl"
    /\ LET t == _tidy_frame_tvl(DataFrame(resp))
       IN  df' = t.input /\ Finish(t.output)
    /\ UNCHANGED <<call, arg, request, nreq, wire, resp>>

GetProtocols ==
    /\ pc = "got" /\ call = "get_protocols"
    /\ Finish(DataFrame(resp))
    /\ UNCHANGED <<call, arg, request, nreq, wire, resp, df>>

FundamentalsColumns ==
    <<"name", "symbol", "chain", "category", "chains", "tvl", "change_1d", "change_7d",
      "fdv", "mcap", "forkedFrom">>

get_protocols_fundamentals(r) ==
    LET sel == loc_columns(DataFrame(r), FundamentalsColumns)
    IN  IF IsRaise(sel) THEN sel ELSE rename(sel, "forkedFrom", "forked_from")

GetProtocolsFundamentals ==
    /\ pc = "got" /\ call = "get_protocols_fundamentals"
    /\ LET out == get_protocols_fundamentals(resp)
       IN  /\ df' = IF IsRaise(out) THEN DataFrame(resp) ELSE out
           /\ Finish(out)
    /\ UNCHANGED <<call, arg, request, nreq, wire, resp>>

GetProtocol ==
    /\ pc = "got" /\ call = "get_protocol"
    /\ Finish([json |-> resp])
    /\ UNCHANGED <<call, arg, request, nreq, wire, resp, df>>

\* dd.pop('staking') when 'staking' is a key: dd is the very mapping the
\* response holds, so the response changes with it
PopStaking(r) ==
    IF HasKey(r.currentChainTvls, "staking")
    THEN [r EXCEPT !.currentChainTvls = pop(@, "staking")]
    ELSE r

GetProtocolCurrTvlByChain ==
    /\ pc = "got" /\ call = "get_protocol_curr_tvl_by_chain"
    /\ resp' = PopStaking(resp)
    /\ Finish(SeriesToFrame(resp'.currentChainTvls, "tvl"))
    /\ UNCHANGED <<call, arg, request, nreq, wire, df>>

\* {chain: self._tidy_frame(pd.DataFrame(dd['chainTvls'][chain]['tvl'])) for chain in chains}:
\* with no chain the comprehension is empty; with one, self._tidy_frame is looked
\* up first, and the class has no such attribute
HistTvlByChain(dd, chains) ==
    IF chains = <<>> THEN [dict |-> <<>>]
    ELSE IF "_tidy_frame" \notin DefiLlamaAttributes THEN Raise("AttributeError")
    ELSE [dict |-> [i \in 1..Len(chains) |->
                      <<chains[i], DataFrame(Lookup(dd.chainTvls, chains[i]).tvl)>>]]

GetProtocolHistTvlByChain ==
    /\ pc = "got" /\ call = "get_protocol_hist_tvl_by_chain"
    /\ resp' = PopStaking(resp)
    /\ Finish(HistTvlByChain(resp', Keys(resp'.currentChainTvls)))
    /\ UNCHANGED <<call, arg, request, nreq, wire, df>>

GetTokensCurrPrices ==
    /\ pc = "got" /\ call = "get_tokens_curr_prices"
    /\ LET d == _tidy_frame_price(resp)
       IN  /\ df' = IF IsRaise(d) THEN df ELSE d
           /\ Finish(IF IsRaise(d) THEN d ELSE loc_columns(d, CurrPriceColumns))
    /\ UNCHANGED <<call, arg, request, nreq, wire, resp>>

GetTokensHistSnapshotPrices ==
    /\ pc = "got" /\ call = "get_tokens_hist_snapshot_prices"
    /\ LET d == _tidy_frame_price(resp)
       IN  /\ df' = IF IsRaise(d) THEN df ELSE d
           /\ Finish(IF IsRaise(d) THEN d ELSE loc_columns(d, HistPriceColumns))
    /\ UNCHANGED <<call, arg, request, nreq, wire, resp>>

\* df = pd.DataFrame(resp, index=range(1)), then the timestamp column decoded
GetClosestBlock ==
    /\ pc = "got" /\ call = "get_closest_block"
    /\ df' = ConvertColumn(DataFrame(<<resp>>), "timestamp")
    /\ Finish(df')
    /\ UNCHANGED <<call, arg, request, nreq, wire, resp>>

\* extract_frame_from_dune_data(dune_data), date_col left at 'day'
ExtractFrame ==
    /\ pc = "extract"
    /\ \E p \in SortOrders(DatedFrame(arg, "day")) :
          Finish(extract_frame_from_dune_data(arg, "day", p))
    /\ UNCHANGED <<call, arg, request, nreq, wire, resp, df>>

Next ==
    \/ Invoke
    \/ InvokeExtract
    \/ Get
    \/ Respond
    \/ RequestFails
    \/ GetProtocolCurrTvl
    \/ GetChainsCurrTvl
    \/ GetDefiHistTvl
    \/ GetChainHistTvl
    \/ GetProtocols
    \/ GetProtocolsFundamentals
    \/ GetProtocol
    \/ GetProtocolCurrTvlByChain
    \/ GetProtocolHistTvlByChain
    \/ GetTokensCurrPrices
    \/ GetTokensHistSnapshotPrices
    \/ GetClosestBlock
    \/ ExtractFrame

Spec == Init /\ [][Next]_vars

(***************************************************************************)
(* Vocabulary of the properties.                                           *)
(***************************************************************************)
\* the call is over
Done == pc \in {"returned", "raised"}

\* the call is over and its request was answered with a JSON body
Answered == Done /\ err \notin RequestErrors

IsFrame(x) == "rows" \in DOMAIN x

\* d's row labels grow strictly from each row to the next
StrictlyIncreasingIndex(d) ==
    \A i \in 1..(Len(d.index) - 1) : DatetimeLess(d.index[i], d.index[i + 1])

\* the seconds since the epoch a datetime stands for
EpochSeconds(t) == t.days * SecondsPerDay + t.secs

\* the part of a key before its first colon, and the part after it
ChainOf(key) == SubSeq(key, 1, FirstColon(key) - 1)
AddressOf(key) == SubSeq(key, FirstColon(key) + 1, Len(key))

(***************************************************************************)
(* C1.  Original statement: for a TVL series of N >= 1 records the table   *)
(* get_defi_hist_tvl / get_chain_hist_tvl returns has exactly N - 1 rows,  *)
(* the last row being dropped.                                             *)
(***************************************************************************)
C1_LastRowDropped ==
    (call \in TvlMethods /\ Answered /\ Len(wire) >= 1)
        => (pc = "returned" /\ Len(result.rows) = Len(wire) - 1)

\* C1, as the code has it: for a TVL series of N >= 1 records the returned table
\* has exactly N rows, one per record and in the order of the records; no row is
\* dropped, the last record included.
C1_NoRowDropped ==
    (call \in TvlMethods /\ Answered /\ Len(wire) >= 1)
        => /\ pc = "returned"
           /\ Len(result.rows) = Len(wire)
           /\ Len(result.index) = Len(wire)
           /\ \A i \in 1..Len(wire) : result.rows[i].tvl = wire[i].totalLiquidityUSD

C1_Witness ==
    /\ call \in TvlMethods /\ pc = "returned"
    /\ Len(wire) = 2
    /\ Len(result.rows) = 2
    /\ result.rows[2].tvl = wire[2].totalLiquidityUSD

(***************************************************************************)
(* C2.  For every key of a price response, _tidy_frame_price yields a row  *)
(* whose chain is the text before the first colon of the key and whose     *)
(* token_address is all the text after that colon, also when the address   *)
(* has colons of its own.                                                  *)
(***************************************************************************)
C2_SplitOnFirstColon ==
    (call \in PriceMethods /\ Answered)
        => \A i \in 1..Len(wire.coins) :
              /\ IsFrame(df)
              /\ df.rows[i].chain = ChainOf(wire.coins[i][1])
              /\ df.rows[i].token_address = AddressOf(wire.coins[i][1])

(***************************************************************************)
(* C3.  get_tokens_curr_prices called with an empty mapping, and answered  *)
(* with an empty coins mapping, does not raise: it returns a table of no   *)
(* rows with the columns timestamp, symbol, price, confidence, chain,      *)
(* token_address, decimals.                                                *)
(***************************************************************************)
C3_EmptyInputReturnsEmptyTable ==
    (call = "get_tokens_curr_prices" /\ Answered /\ arg = <<>> /\ wire.coins = <<>>)
        => /\ pc = "returned"
           /\ result.columns = CurrPriceColumns
           /\ result.rows = <<>>

(***************************************************************************)
(* C4.  When currentChainTvls has a "staking" key, the table returned by   *)
(* get_protocol_curr_tvl_by_chain has no "staking" row, and its rows are   *)
(* the other keys one to one: the row labels are the keys without          *)
(* "staking", none twice, each row holding the value of its key.           *)
(***************************************************************************)
C4_StakingRemovedOthersKept ==
    (call = "get_protocol_curr_tvl_by_chain" /\ Answered
        /\ HasKey(wire.currentChainTvls, "staking"))
        => /\ pc = "returned"
           /\ "staking" \notin Range(result.index)
           /\ Range(result.index) = Range(Keys(wire.currentChainTvls)) \ {"staking"}
           /\ Len(result.index) = Len(wire.currentChainTvls) - 1
           /\ \A i \in 1..Len(result.index) :
                 result.rows[i].tvl = Lookup(wire.currentChainTvls, result.index[i])

C4_Witness ==
    /\ call = "get_protocol_curr_tvl_by_chain" /\ pc = "returned"
    /\ Keys(wire.currentChainTvls) = <<"staking", "Ethereum-staking">>
    /\ result.index = <<"Ethereum-staking">>

(***************************************************************************)
(* C5.  Original statement: whatever the order of the records of a TVL     *)
(* series, and whether or not two of them share a date, the timestamp      *)
(* index of the returned table grows strictly from each row to the next.   *)
(***************************************************************************)
C5_IndexStrictlyIncreasing ==
    (call \in TvlMethods /\ pc = "returned") => StrictlyIncreasingIndex(result)

\* C5, as the code has it: the timestamp index holds the dates of the records in
\* the order of the response, each decoded to the UTC time it stands for; the
\* reshape neither sorts nor removes duplicates, so the index grows strictly
\* exactly when the dates of the response do.
C5_IndexFollowsResponseOrder ==
    (call \in TvlMethods /\ pc = "returned")
        => /\ Len(result.index) = Len(wire)
           /\ \A i \in 1..Len(wire) : EpochSeconds(result.index[i]) = wire[i].date
           /\ StrictlyIncreasingIndex(result)
                <=> \A i \in 1..(Len(wire) - 1) : wire[i].date < wire[i + 1].date

C5_Witness ==
    /\ call \in TvlMethods /\ pc = "returned"
    /\ Len(wire) = 3
    /\ wire[1].date > wire[2].date
    /\ wire[2].date = wire[3].date
    /\ ~StrictlyIncreasingIndex(result)

(***************************************************************************)
(* C6.  Every public DefiLlama call hands exactly one request to the       *)
(* session before it ends; no path sends a second one; when the request    *)
(* fails the exception reaches the caller with no further request and no   *)
(* value returned.                                                         *)
(***************************************************************************)
C6_OneRequestPerCall ==
    /\ nreq <= 1
    /\ (call \in PublicMethods /\ pc \in {"sent", "got", "returned", "raised"}) => nreq = 1
    /\ err \in RequestErrors => (pc = "raised" /\ nreq = 1 /\ result = None)

C6_Witness ==
    /\ call = "get_protocol_hist_tvl_by_chain"
    /\ pc = "raised" /\ err = "Timeout"
    /\ nreq = 1 /\ result = None

(***************************************************************************)
(* C7.  For a well-formed protocol response get_protocol_hist_tvl_by_chain *)
(* does not raise and returns a dictionary whose keys are the keys of      *)
(* currentChainTvls without "staking", each with the reshaped TVL series   *)
(* of chainTvls[chain]['tvl'].                                             *)
(***************************************************************************)
C7_HistTvlByChainReturnsTables ==
    (call = "get_protocol_hist_tvl_by_chain" /\ Answered)
        => /\ pc = "returned"
           /\ Keys(result.dict) = Keys(pop(wire.currentChainTvls, "staking"))
           /\ \A i \in 1..Len(result.dict) :
                 result.dict[i][2] =
                    _tidy_frame_tvl(DataFrame(Lookup(wire.chainTvls, result.dict[i][1]).tvl)).output

(***************************************************************************)
(* C8.  For a price response whose value objects hold price, symbol,       *)
(* timestamp and decimals (confidence may be missing), both price methods  *)
(* return one row per key, row i holding the chain and token_address of    *)
(* the i-th key and the fields of the value object under that key; the     *)
(* current-price table has a confidence column, the snapshot table none.   *)
(* Stated here for the responses that have a key and whose keys have one   *)
(* colon each; the empty response is C3's case, a key with more colons     *)
(* C2's.                                                                   *)
(***************************************************************************)
C8_OneRowPerKey ==
    (call \in PriceMethods /\ Answered
        /\ wire.coins # <<>>
        /\ \A i \in 1..Len(wire.coins) : Len(split(wire.coins[i][1])) = 2)
        => /\ pc = "returned"
           /\ Len(result.rows) = Len(wire.coins)
           /\ \A i \in 1..Len(wire.coins) :
                 /\ result.rows[i].chain = ChainOf(wire.coins[i][1])
                 /\ result.rows[i].token_address = AddressOf(wire.coins[i][1])
                 /\ result.rows[i].price = wire.coins[i][2].price
                 /\ result.rows[i].symbol = wire.coins[i][2].symbol
                 /\ result.rows[i].decimals = wire.coins[i][2].decimals
                 /\ EpochSeconds(result.rows[i].timestamp) = wire.coins[i][2].timestamp
           /\ HasColumn(result, "confidence") <=> call = "get_tokens_curr_prices"

(***************************************************************************)
(* C9.  For a query result of N >= 1 records extract_frame_from_dune_data  *)
(* returns the records sorted by date, ascending, without the last one:    *)
(* N - 1 rows, a date index that never decreases, and the record left out  *)
(* holds the greatest date, whatever the order of the records.             *)
(***************************************************************************)
C9_SortedAndLastDropped ==
    (call = "extract_frame_from_dune_data" /\ Done)
        => LET dd == arg.data.get_result_by_result_id
               N  == Len(dd)
               date(k) == [days |-> dd[k].data.day.date, secs |-> 0]
           IN  /\ pc = "returned"
               /\ Len(result.rows) = N - 1
               /\ Len(result.index) = N - 1
               /\ \A i \in 1..(N - 2) : ~DatetimeLess(result.index[i + 1], result.index[i])
               /\ \E p \in RowOrders(N) :
                     /\ \A i \in 1..(N - 1) :
                           /\ result.index[i] = date(p[i])
                           /\ result.rows[i].v = dd[p[i]].data.v
                     /\ \A k \in 1..N : ~DatetimeLess(date(p[N]), date(k))

C9_Witness ==
    /\ call = "extract_frame_from_dune_data" /\ pc = "returned"
    /\ LET dd == arg.data.get_result_by_result_id
       IN  /\ Len(dd) = 3
           /\ dd[1].data.day.date = 2 /\ dd[1].data.v = 1
           /\ dd[2].data.day.date = 1 /\ dd[2].data.v = 2
           /\ dd[3].data.day.date = 1 /\ dd[3].data.v = 1
           /\ result.index = <<[days |-> 1, secs |-> 0], [days |-> 1, secs |-> 0]>>

(***************************************************************************)
(* C10.  The reshaping routines leave what is passed to them as it was:    *)
(* after _tidy_frame_tvl returns, the frame passed in has the columns and  *)
(* values it had; after _tidy_frame_price and after the chain-breakdown    *)
(* reshape, the response mapping has the keys and values it had.           *)
(***************************************************************************)
C10_InputsUnchanged ==
    /\ (call \in TvlMethods /\ pc = "returned")
          => /\ df.columns = DataFrame(wire).columns
             /\ df.dtypes = DataFrame(wire).dtypes
             /\ df = DataFrame(wire)
    /\ (call \in PriceMethods /\ Answered) => resp = wire
    /\ (call = "get_protocol_curr_tvl_by_chain" /\ Answered) => resp = wire

====
